---- MODULE Spec2Model ----
(***************************************************************************)
(* Model of fetch.py: selection of the latest accepted submission per      *)
(* problem, derivation of contest id / problem suffix from a problem id,   *)
(* extraction of the submitted text from the rendered code widget, and the *)
(* skip-or-fetch synchronisation loop with its file and ledger writes.     *)
(* Strings the code inspects character by character are sequences of       *)
(* one-character strings.                                                  *)
(***************************************************************************)
EXTENDS Integers, Sequences, FiniteSets, TLC

VARIABLES
    \* Submission.get_problem_id_postfix / get_contest_id_from_problem_id
    problem_id, postfix, contest_prefix,
    \* _get_latest_ac_subs_from_atcoder_problems
    results, results_json, ac_subs, latest_ac_subs_dic, selPc, selOut,
    \* _get_sub_code (text extraction)
    source, inner_html, text, extPc,
    \* _fetch_from_atcoder / _fetch_sub
    subs, idx, pc, driver, ldriver, sessions, dirs, files, metas,
    metadata, sub_code, run, outcome, eff, prevFetches, lastDecision, touchedAt,
    afterClean, retry

idVars   == <<problem_id, postfix, contest_prefix>>
selVars  == <<results, results_json, ac_subs, latest_ac_subs_dic, selPc,
              selOut>>
extVars  == <<source, inner_html, text, extPc>>
syncVars == <<subs, idx, pc, driver, ldriver, sessions, dirs, files, metas,
              metadata, sub_code, run, outcome, eff, prevFetches, lastDecision,
              touchedAt, afterClean, retry>>
vars     == <<idVars, selVars, extVars, syncVars>>

(***************************************************************************)
(* Bounds                                                                  *)
(***************************************************************************)
MaxIdLen == 4
MaxHist == 3
MaxLines == 2
MaxLineLen == 1
MaxRuns == 2

(***************************************************************************)
(* Characters                                                              *)
(***************************************************************************)
NL == "\n"

Digits == {"0", "1", "2", "3", "4", "5", "6", "7", "8", "9"}

\* int(c) for a decimal digit c
DigitVal(c) ==
    CASE c = "0" -> 0 [] c = "1" -> 1 [] c = "2" -> 2 [] c = "3" -> 3
      [] c = "4" -> 4 [] c = "5" -> 5 [] c = "6" -> 6 [] c = "7" -> 7
      [] c = "8" -> 8 [] c = "9" -> 9

\* ord('a')
OrdA == 97

\* chr(n) on the code points the model produces (96 is the grave accent)
Chr(n) ==
    CASE n = 38 -> "&" [] n = 39 -> "'" [] n = 60 -> "<" [] n = 62 -> ">"
      [] n = 96 -> "u0060" [] n = 97 -> "a" [] n = 98 -> "b" [] n = 99 -> "c"
      [] n = 100 -> "d" [] n = 101 -> "e" [] n = 102 -> "f"
      [] n = 103 -> "g" [] n = 104 -> "h" [] n = 105 -> "i"
      [] OTHER -> "?"

\* All sequences over S of length 0..n
SeqsUpTo(S, n) == UNION {[1..k -> S] : k \in 0..n}

(***************************************************************************)
(* Submission: _split_problem_id, get_problem_id_postfix,                  *)
(* get_contest_id_from_problem_id                                          *)
(***************************************************************************)

\* Lengths k of group 1 for which r'^(.+?)_(.)$' matches s: k >= 1
\* characters none of which is a line break, an underscore, one character
\* that is not a line break, then the end of the string or a final line
\* break.
SplitCandidates(s) ==
    {k \in 1..Len(s) :
        /\ \A i \in 1..k : s[i] # NL
        /\ k + 2 <= Len(s)
        /\ s[k + 1] = "_"
        /\ s[k + 2] # NL
        /\ \/ k + 2 = Len(s)
           \/ k + 3 = Len(s) /\ s[Len(s)] = NL}

NoMatch == [matched |-> FALSE, g1 |-> <<>>, g2 |-> ""]

\* re.search(r'^(.+?)_(.)$', problem_id): the lazy group takes the
\* shortest prefix that lets the rest match.
_split_problem_id(s) ==
    LET ks == SplitCandidates(s) IN
    IF ks = {} THEN NoMatch
    ELSE LET k == CHOOSE x \in ks : \A y \in ks : x <= y
         IN [matched |-> TRUE, g1 |-> SubSeq(s, 1, k), g2 |-> s[k + 2]]

AssertionError == [err |-> TRUE, val |-> ""]
AssertionErrorSeq == [err |-> TRUE, val |-> <<>>]

\* The digit branch left out: the postfix is returned as matched.
PostfixNoDigitMap(s) ==
    LET m == _split_problem_id(s) IN
    IF ~m.matched THEN AssertionError ELSE [err |-> FALSE, val |-> m.g2]

get_problem_id_postfix(s) ==
    LET m == _split_problem_id(s) IN
    IF ~m.matched THEN AssertionError
    ELSE IF m.g2 \in Digits
         THEN [err |-> FALSE, val |-> Chr(DigitVal(m.g2) + OrdA - 1)]
         ELSE [err |-> FALSE, val |-> m.g2]

get_contest_id_from_problem_id(s) ==
    LET m == _split_problem_id(s) IN
    IF ~m.matched THEN AssertionErrorSeq
    ELSE [err |-> FALSE, val |-> m.g1]

(***************************************************************************)
(* _get_latest_ac_subs_from_atcoder_problems                               *)
(***************************************************************************)

\* The result is not looked at: every submission counts as accepted.
IsAnyResult(sub) == sub.result \in {"AC", "WA"}

\* Submission.is_ac
is_ac(sub) == sub.result = "AC"

\* filter(lambda sub: sub.is_ac(), subs), order kept
RECURSIVE FilterAc(_)
FilterAc(s) ==
    IF s = <<>> THEN <<>>
    ELSE LET rest == FilterAc(SubSeq(s, 1, Len(s) - 1))
             x == s[Len(s)]
         IN IF is_ac(x) THEN Append(rest, x) ELSE rest

\* x put before the elements of equal key: an unstable sort that turns the
\* arrival order of equal keys round.
InsertBeforeEqual(sorted, x) ==
    LET k == Cardinality({i \in 1..Len(sorted) :
                            sorted[i].epoch_second < x.epoch_second})
    IN SubSeq(sorted, 1, k) \o <<x>> \o SubSeq(sorted, k + 1, Len(sorted))

\* x put behind every element whose key is not greater: the order of equal
\* keys is the order of arrival (list.sort is stable).
InsertByEpoch(sorted, x) ==
    LET k == Cardinality({i \in 1..Len(sorted) :
                            sorted[i].epoch_second <= x.epoch_second})
    IN SubSeq(sorted, 1, k) \o <<x>> \o SubSeq(sorted, k + 1, Len(sorted))

\* The list left in arrival order (the sort left out).
SortNone(s) == s

\* ac_subs.sort(key=lambda s: s.epoch_second)
RECURSIVE SortByEpoch(_)
SortByEpoch(s) ==
    IF s = <<>> THEN <<>>
    ELSE InsertByEpoch(SortByEpoch(SubSeq(s, 1, Len(s) - 1)), s[Len(s)])

\* A dict is the sequence of its items in insertion order.
DictHasKey(d, k) == \E i \in 1..Len(d) : d[i].key = k

DictGet(d, k) == d[CHOOSE i \in 1..Len(d) : d[i].key = k].value

\* d[k] = v: an existing key keeps its place, a new key goes last.
DictSet(d, k, v) ==
    IF DictHasKey(d, k)
    THEN [i \in 1..Len(d) |->
            IF d[i].key = k THEN [key |-> k, value |-> v] ELSE d[i]]
    ELSE Append(d, [key |-> k, value |-> v])

\* d.values()
DictValues(d) == [i \in 1..Len(d) |-> d[i].value]

SelProblemIds == {"abc_a", "abc_b"}
SelEpochs == {100, 200}
SelResults == {"AC", "WA"}

\* The raw history: ids are unique, the arrival order is arbitrary.
Histories ==
    UNION {[1..n -> [problem_id : SelProblemIds,
                     epoch_second : SelEpochs,
                     result : SelResults]] : n \in 0..MaxHist}

WithIds(h) ==
    [i \in 1..Len(h) |->
        [id |-> i, contest_id |-> "abc", problem_id |-> h[i].problem_id,
         epoch_second |-> h[i].epoch_second, language |-> "Python (3.8.2)",
         result |-> h[i].result]]

\* lines 122-131: the history is dumped to results.json, filtered and sorted
SelFilterSort ==
    /\ selPc = "start"
    /\ results_json' = results
    /\ ac_subs' = SortByEpoch(FilterAc(results))
    /\ latest_ac_subs_dic' = <<>>
    /\ selPc' = "fold"
    /\ UNCHANGED <<results, selOut, idVars, extVars, syncVars>>

\* lines 135-136: one iteration of the fold
SelFold ==
    /\ selPc = "fold"
    /\ ac_subs # <<>>
    /\ latest_ac_subs_dic' =
          DictSet(latest_ac_subs_dic, Head(ac_subs).problem_id, Head(ac_subs))
    /\ ac_subs' = Tail(ac_subs)
    /\ UNCHANGED <<results, results_json, selPc, selOut, idVars, extVars,
                   syncVars>>

\* line 138
SelReturn ==
    /\ selPc = "fold"
    /\ ac_subs = <<>>
    /\ selOut' = DictValues(latest_ac_subs_dic)
    /\ selPc' = "done"
    /\ UNCHANGED <<results, results_json, ac_subs, latest_ac_subs_dic,
                   idVars, extVars, syncVars>>

(***************************************************************************)
(* Problem id derivation as a state machine over bounded inputs            *)
(***************************************************************************)
IdChars == {"a", "B", "3", "_", NL}

ExampleIds ==
    {<<"c","o","d","e","f","e","s","t","i","v","a","l","_","2","0","1","6",
       "_","q","u","a","l","B","_","a">>,
     <<"a","b","c","_","1">>, <<"a","b","c","_","2">>,
     <<"a","b","c","_","0">>, <<"a","r","c","_","9">>}

ProblemIdInputs == SeqsUpTo(IdChars, MaxIdLen) \cup ExampleIds

NotCalled == [called |-> FALSE, err |-> FALSE, val |-> ""]
NotCalledSeq == [called |-> FALSE, err |-> FALSE, val |-> <<>>]

CallPostfix ==
    /\ ~postfix.called
    /\ LET r == get_problem_id_postfix(problem_id)
       IN postfix' = [called |-> TRUE, err |-> r.err, val |-> r.val]
    /\ UNCHANGED <<problem_id, contest_prefix, selVars, extVars, syncVars>>

CallContestId ==
    /\ ~contest_prefix.called
    /\ LET r == get_contest_id_from_problem_id(problem_id)
       IN contest_prefix' = [called |-> TRUE, err |-> r.err, val |-> r.val]
    /\ UNCHANGED <<problem_id, postfix, selVars, extVars, syncVars>>

(***************************************************************************)
(* _get_sub_code: the text of the code region                              *)
(***************************************************************************)
MinOf(S) == CHOOSE x \in S : \A y \in S : x <= y

\* s has pat at index i
StartsWith(s, i, pat) ==
    /\ i + Len(pat) - 1 <= Len(s)
    /\ \A k \in 1..Len(pat) : s[i + k - 1] = pat[k]

RECURSIVE Concat(_)
Concat(ss) == IF ss = <<>> THEN <<>> ELSE Head(ss) \o Concat(Tail(ss))

LiStart == <<"<", "l", "i">>
LiClose == <<"<", "/", "l", "i", ">">>
NbspToken == <<"&", "n", "b", "s", "p", ";">>

\* The greedy pattern r'<li[^>]*>.*</li>': the match runs to the last
\* '</li>' of the line.
LiMatchEndGreedy(s, i) ==
    IF ~StartsWith(s, i, LiStart) THEN 0
    ELSE LET gts == {p \in (i + 3)..Len(s) : s[p] = ">"} IN
         IF gts = {} THEN 0
         ELSE LET p == MinOf(gts)
                  js == {j \in (p + 1)..Len(s) :
                            /\ StartsWith(s, j, LiClose)
                            /\ \A k \in (p + 1)..(j - 1) : s[k] # NL}
              IN IF js = {} THEN 0
                 ELSE (CHOOSE j \in js : \A x \in js : x <= j)
                        + Len(LiClose) - 1

\* Last index of the match of r'<li[^>]*>.*?</li>' that starts at i, 0 when
\* there is none: '<li', everything up to the first '>', then the fewest
\* characters, none a line break, up to '</li>'.
LiMatchEnd(s, i) ==
    IF ~StartsWith(s, i, LiStart) THEN 0
    ELSE LET gts == {p \in (i + 3)..Len(s) : s[p] = ">"} IN
         IF gts = {} THEN 0
         ELSE LET p == MinOf(gts)
                  js == {j \in (p + 1)..Len(s) :
                            /\ StartsWith(s, j, LiClose)
                            /\ \A k \in (p + 1)..(j - 1) : s[k] # NL}
              IN IF js = {} THEN 0 ELSE MinOf(js) + Len(LiClose) - 1

\* re.findall(r'<li[^>]*>.*?</li>', inner_html) from index i on:
\* the matches, left to right, not overlapping
RECURSIVE FindAllLi(_, _)
FindAllLi(s, i) ==
    IF i > Len(s) THEN <<>>
    ELSE LET e == LiMatchEnd(s, i) IN
         IF e = 0 THEN FindAllLi(s, i + 1)
         ELSE <<SubSeq(s, i, e)>> \o FindAllLi(s, e + 1)

\* re.sub(r'<[^>]+>', '', li) from index i on: '<', at least one character
\* that is not '>', then the first '>'
RECURSIVE StripTags(_, _)
StripTags(s, i) ==
    IF i > Len(s) THEN <<>>
    ELSE LET gts == {p \in (i + 2)..Len(s) : s[p] = ">"} IN
         IF s[i] = "<" /\ i + 1 <= Len(s) /\ s[i + 1] # ">" /\ gts # {}
         THEN StripTags(s, MinOf(gts) + 1)
         ELSE <<s[i]>> \o StripTags(s, i + 1)

\* re.sub(r'&nbsp;', '', line1) from index i on
RECURSIVE RemoveNbsp(_, _)
RemoveNbsp(s, i) ==
    IF i > Len(s) THEN <<>>
    ELSE IF StartsWith(s, i, NbspToken)
         THEN RemoveNbsp(s, i + Len(NbspToken))
         ELSE <<s[i]>> \o RemoveNbsp(s, i + 1)

\* html.unescape -----------------------------------------------------------

\* Characters that end a named reference: [^\t\n\f <&#;]
NameStop == {"\t", NL, "\f", " ", "<", "&", "#", ";"}

HexDigits == Digits \cup {"a", "b", "c", "d", "e", "f",
                          "A", "B", "C", "D", "E", "F"}

HexVal(c) ==
    CASE c \in Digits -> DigitVal(c)
      [] c \in {"a", "A"} -> 10 [] c \in {"b", "B"} -> 11
      [] c \in {"c", "C"} -> 12 [] c \in {"d", "D"} -> 13
      [] c \in {"e", "E"} -> 14 [] c \in {"f", "F"} -> 15

\* int(digits, base)
RECURSIVE ParseInt(_, _)
ParseInt(ds, base) ==
    IF ds = <<>> THEN 0
    ELSE ParseInt(SubSeq(ds, 1, Len(ds) - 1), base) * base
           + HexVal(ds[Len(ds)])

\* Number of consecutive characters of s from index i on that are in S
RunIn(s, i, S) ==
    LET stops == {j \in i..Len(s) : s[j] \notin S}
    IN IF stops = {} THEN Len(s) - i + 1 ELSE MinOf(stops) - i

\* Number of consecutive characters of s from index i on that are not in S
RunNotIn(s, i, S) ==
    LET stops == {j \in i..Len(s) : s[j] \in S}
    IN IF stops = {} THEN Len(s) - i + 1 ELSE MinOf(stops) - i

\* 1 when s has a ';' at index i
SemiAt(s, i) == IF i <= Len(s) /\ s[i] = ";" THEN 1 ELSE 0

\* The entries of html.entities.html5 over the characters of the model;
\* U+00A0 is written "u00A0".
Html5Names ==
    {<<"a","m","p",";">>, <<"a","m","p">>, <<"l","t",";">>, <<"l","t">>,
     <<"g","t",";">>, <<"g","t">>, <<"q","u","o","t",";">>,
     <<"q","u","o","t">>, <<"n","b","s","p",";">>, <<"n","b","s","p">>,
     <<"a","p","o","s",";">>}

Html5(t) ==
    CASE t \in {<<"a","m","p",";">>, <<"a","m","p">>} -> <<"&">>
      [] t \in {<<"l","t",";">>, <<"l","t">>} -> <<"<">>
      [] t \in {<<"g","t",";">>, <<"g","t">>} -> <<">">>
      [] t \in {<<"q","u","o","t",";">>, <<"q","u","o","t">>} -> <<"\"">>
      [] t \in {<<"n","b","s","p",";">>, <<"n","b","s","p">>} -> <<"u00A0">>
      [] t = <<"a","p","o","s",";">> -> <<"'">>

\* _replace_charref for a named reference t (the text after '&')
ReplaceNamed(t) ==
    IF t \in Html5Names THEN Html5(t)
    ELSE LET xs == {x \in 2..(Len(t) - 1) : SubSeq(t, 1, x) \in Html5Names}
         IN IF xs = {} THEN <<"&">> \o t
            ELSE LET x == CHOOSE y \in xs : \A z \in xs : z <= y
                 IN Html5(SubSeq(t, 1, x)) \o SubSeq(t, x + 1, Len(t))

\* The match of _charref whose '&' is at index i - 1: the number of
\* characters matched after the '&' (0: no match) and their replacement.
CharrefAt(s, i) ==
    LET dec == IF i <= Len(s) /\ s[i] = "#" THEN RunIn(s, i + 1, Digits) ELSE 0
        hex == IF i + 1 <= Len(s) /\ s[i] = "#" /\ s[i + 1] \in {"x", "X"}
               THEN RunIn(s, i + 2, HexDigits) ELSE 0
        nam == LET r == RunNotIn(s, i, NameStop) IN IF r > 32 THEN 32 ELSE r
    IN IF dec > 0
       THEN [len |-> 1 + dec + SemiAt(s, i + 1 + dec),
             out |-> <<Chr(ParseInt(SubSeq(s, i + 1, i + dec), 10))>>]
       ELSE IF hex > 0
       THEN [len |-> 2 + hex + SemiAt(s, i + 2 + hex),
             out |-> <<Chr(ParseInt(SubSeq(s, i + 2, i + 1 + hex), 16))>>]
       ELSE IF nam > 0
       THEN LET n == nam + SemiAt(s, i + nam)
            IN [len |-> n, out |-> ReplaceNamed(SubSeq(s, i, i + n - 1))]
       ELSE [len |-> 0, out |-> <<>>]

\* html.unescape(line2) from index i on
RECURSIVE Unescape(_, _)
Unescape(s, i) ==
    IF i > Len(s) THEN <<>>
    ELSE IF s[i] # "&" THEN <<s[i]>> \o Unescape(s, i + 1)
    ELSE LET m == CharrefAt(s, i + 1) IN
         IF m.len = 0 THEN <<"&">> \o Unescape(s, i + 1)
         ELSE m.out \o Unescape(s, i + 1 + m.len)

\* The entities unescaped before the tags are stripped.
ExtractLineUnescapeFirst(li) ==
    RemoveNbsp(StripTags(Unescape(li, 1), 1), 1) \o <<NL>>

\* lines 160-163: one line of the text from one <li> element
ExtractLine(li) ==
    LET line1 == StripTags(li, 1)
        line2 == RemoveNbsp(line1, 1)
        line3 == Unescape(line2, 1)
    IN line3 \o <<NL>>

\* lines 157-164: the text of the code region
ExtractText(html) ==
    LET list_items == FindAllLi(html, 1)
    IN Concat([k \in 1..Len(list_items) |-> ExtractLine(list_items[k])])

(***************************************************************************)
(* Markup of the code region built from a plain-text source: one <li> per  *)
(* line, the text HTML-escaped, with highlighting spans and &nbsp;         *)
(* placeholders around it.                                                 *)
(***************************************************************************)
SrcChars == {"a", " ", "&"}

\* Lines with a literal placeholder, markup characters, quotes, leading
\* whitespace and a reference without its semicolon.
ExampleLines ==
    {<<"&", "n", "b", "s", "p", ";">>, <<" ", " ", "a", "<", "b", ">">>,
     <<"<", "l", "i", ">">>, <<"'", "a", "\"">>, <<"&", "l", "t">>,
     <<"&", "#", "3", "8", ";">>}

SrcLines == SeqsUpTo(SrcChars, MaxLineLen)

\* Sources of several lines with blank lines and indentation
ExampleSources ==
    {<<<<"a">>, <<>>, <<" ", " ", "a", "&", "&">>>>,
     <<<<" ", "a", " ">>, <<"\t", "a">>, <<>>, <<>>>>,
     <<<<"a", "&", "a", "m", "p", ";">>, <<" ", " ">>>>}

Sources ==
    SeqsUpTo(SrcLines, MaxLines) \cup {<<l>> : l \in ExampleLines}
      \cup {<<<<>>, l, <<>>>> : l \in ExampleLines} \cup ExampleSources

\* html.escape(c, quote=True) of one character
EscapeChar(c) ==
    CASE c = "&" -> <<"&", "a", "m", "p", ";">>
      [] c = "<" -> <<"&", "l", "t", ";">>
      [] c = ">" -> <<"&", "g", "t", ";">>
      [] c = "\"" -> <<"&", "q", "u", "o", "t", ";">>
      [] c = "'" -> <<"&", "#", "x", "2", "7", ";">>
      [] OTHER -> <<c>>

EscapeText(line) == Concat([k \in 1..Len(line) |-> EscapeChar(line[k])])

LiOpen == <<"<", "l", "i", ">">>
LiOpenClass ==
    <<"<", "l", "i", " ", "c", "l", "a", "s", "s", "=", "L", "0", ">">>
SpanOpen ==
    <<"<", "s", "p", "a", "n", " ", "c", "l", "a", "s", "s", "=", "p", "l",
      "n", ">">>
SpanClose == <<"<", "/", "s", "p", "a", "n", ">">>
OlOpen == <<"<", "o", "l", ">">>
OlClose == <<"<", "/", "o", "l", ">">>

Styles == {"plain", "spans", "placeholders", "split"}

\* Number of leading blanks of a line
LeadingBlanks(line) == RunIn(line, 1, {" "})

MarkupLine(line, style) ==
    CASE style = "plain" -> LiOpen \o EscapeText(line) \o LiClose
      [] style = "spans" ->
            LiOpenClass \o SpanOpen \o EscapeText(line) \o SpanClose \o LiClose
      [] style = "placeholders" ->
            \* a placeholder in front of the text and one in a blank line
            LiOpenClass \o SpanOpen \o NbspToken \o EscapeText(line)
              \o SpanClose \o LiClose
      [] style = "split" ->
            \* the indentation and the rest in spans of their own, a
            \* placeholder between and behind them
            LET n == LeadingBlanks(line) IN
            LiOpen \o SpanOpen \o EscapeText(SubSeq(line, 1, n)) \o SpanClose
              \o NbspToken
              \o SpanOpen \o EscapeText(SubSeq(line, n + 1, Len(line)))
              \o SpanClose \o NbspToken \o LiClose

Markup(src, style) ==
    LET body == Concat([k \in 1..Len(src) |-> MarkupLine(src[k], style)])
    IN IF style = "plain" THEN body ELSE OlOpen \o body \o OlClose

\* The source as text: every line ended by a line break
PlainText(src) == Concat([k \in 1..Len(src) |-> src[k] \o <<NL>>])

\* The page is rendered from the source.
Render ==
    /\ extPc = "source"
    /\ \E style \in Styles : inner_html' = Markup(source, style)
    /\ extPc' = "rendered"
    /\ UNCHANGED <<source, text, idVars, selVars, syncVars>>

\* lines 156-164
Extract ==
    /\ extPc = "rendered"
    /\ text' = ExtractText(inner_html)
    /\ extPc' = "extracted"
    /\ UNCHANGED <<source, inner_html, idVars, selVars, syncVars>>

(***************************************************************************)
(* _get_file_path, _fetch_sub, _fetch_from_atcoder                         *)
(***************************************************************************)

\* pat in lang
Contains(lang, pat) == \E i \in 1..Len(lang) : StartsWith(lang, i, pat)

StrPython == <<"P", "y", "t", "h", "o", "n">>
StrPyPy == <<"P", "y", "P", "y">>
StrGo == <<"G", "o">>

LangPython3 == <<"P", "y", "t", "h", "o", "n", "3">>
LangPyPy3 == <<"P", "y", "P", "y", "3">>
LangGo == <<"G", "o", " ", "1">>
LangCython == <<"C", "y", "t", "h", "o", "n">>

\* Every label is taken for Python.
FilePathAlwaysPy(problem_dir, lang) ==
    [err |-> FALSE, dir |-> problem_dir, name |-> "Main.py"]

\* lines 171-177
_get_file_path(problem_dir, lang) ==
    IF Contains(lang, StrPython) \/ Contains(lang, StrPyPy)
    THEN [err |-> FALSE, dir |-> problem_dir, name |-> "Main.py"]
    ELSE IF Contains(lang, StrGo)
    THEN [err |-> FALSE, dir |-> problem_dir, name |-> "Main.go"]
    ELSE [err |-> TRUE, dir |-> problem_dir, name |-> ""]

\* The submissions of the remote history that can be candidates
AllSubs ==
    {[id |-> 1, contest_id |-> "abc", problem_id |-> "abc_a",
      epoch_second |-> 100, language |-> LangPython3, result |-> "AC"],
     [id |-> 2, contest_id |-> "abc", problem_id |-> "abc_a",
      epoch_second |-> 200, language |-> LangPyPy3, result |-> "AC"],
     [id |-> 3, contest_id |-> "abc", problem_id |-> "abc_a",
      epoch_second |-> 300, language |-> LangGo, result |-> "AC"],
     [id |-> 4, contest_id |-> "abc", problem_id |-> "abc_b",
      epoch_second |-> 100, language |-> LangPython3, result |-> "AC"],
     [id |-> 5, contest_id |-> "abc", problem_id |-> "abc_b",
      epoch_second |-> 200, language |-> LangCython, result |-> "AC"]}

SubById(id) == CHOOSE s \in AllSubs : s.id = id

\* The worklist is the value list of a dict keyed by problem_id (lines
\* 134-138): no two candidates share a problem_id.
Worklists ==
    {w \in SeqsUpTo(AllSubs, Cardinality({s.problem_id : s \in AllSubs})) :
        \A i, j \in 1..Len(w) : i # j => w[i].problem_id # w[j].problem_id}

\* Path(DIR_SUBMISSION) / sub.contest_id / sub.problem_id
ProblemDirOf(sub) == <<sub.contest_id, sub.problem_id>>

ProblemDirs == {ProblemDirOf(s) : s \in AllSubs}
FileNames == {"Main.py", "Main.go"}
FilePaths == ProblemDirs \X FileNames

NoFile == [exists |-> FALSE, text |-> <<>>]
NoMeta == [exists |-> FALSE, valid |-> FALSE, obj |-> {}]
\* metadata.json opened for writing and not yet written: not valid JSON
TruncatedMeta == [exists |-> TRUE, valid |-> FALSE, obj |-> {}]

\* The source shown on the page of a submission, and the page's code region
SourceOf(id) == <<<<Chr(OrdA - 1 + id), "<">>, <<>>, <<" ", "&">>>>
InnerHTML(id) == Markup(SourceOf(id), "split")

\* The text _get_sub_code returns for each submission
Codes == [id \in {s.id : s \in AllSubs} |-> ExtractText(InnerHTML(id))]

CodeOf(id) == Codes[id]

\* A ledger (the dict read from metadata.json) is a set of items
\* [name, sub], one per name.
LedgerHas(m, name) == \E e \in m : e.name = name
LedgerGet(m, name) == (CHOOSE e \in m : e.name = name).sub

\* The entry is not stored.
LedgerPutNothing(m, name, sub) == m

\* The entry is stored under the Python file name whatever the language.
LedgerPutFixedKey(m, name, sub) ==
    {e \in m : e.name # "Main.py"} \cup {[name |-> "Main.py", sub |-> sub]}

\* The ledger written holds the new entry alone: what was read is dropped.
LedgerPutAlone(m, name, sub) == {[name |-> name, sub |-> sub]}

\* line 220: metadata[file_path.name] = sub
LedgerPut(m, name, sub) ==
    {e \in m : e.name # name} \cup {[name |-> name, sub |-> sub]}

\* lines 195-198: {} when there is no metadata.json
LoadMetadata(meta) == IF meta.exists THEN meta.obj ELSE {}

\* The comparison of ids of line 203 left out: any entry under the file
\* name counts.
AlreadyFetchedAnyEntry(file, m, name, sub) ==
    file.exists /\ LedgerHas(m, name)

\* The file on disk is not looked at.
AlreadyFetchedNoFileCheck(file, m, name, sub) ==
    LedgerHas(m, name) /\ LedgerGet(m, name).id = sub.id

\* lines 201-203: the condition under which _fetch_sub returns early
AlreadyFetched(file, m, name, sub) ==
    IF file.exists /\ LedgerHas(m, name)
    THEN LET msub == LedgerGet(m, name) IN msub.id = sub.id
    ELSE FALSE

\* The file is opened for writing before the page is fetched.
StepAfterOpenFirst(p) ==
    CASE p = "need_driver" -> "open_file"
      [] p = "open_file" -> "get"
      [] p = "get" -> "find"
      [] p = "find" -> "write_file"
      [] p = "write_file" -> "open_meta"
      [] p = "open_meta" -> "dump_meta"
      [] p = "dump_meta" -> "sleep"

\* lines 211-226: the order of the statements of a fetch
StepAfter(p) ==
    CASE p = "need_driver" -> "get"
      [] p = "get" -> "find"
      [] p = "find" -> "open_file"
      [] p = "open_file" -> "write_file"
      [] p = "write_file" -> "open_meta"
      [] p = "open_meta" -> "dump_meta"
      [] p = "dump_meta" -> "sleep"

\* line 20
WAIT_SEC == 3

NoEff == [sessions |-> 0, navs |-> 0, file_writes |-> 0, meta_writes |-> 0,
          slept |-> 0, fetches |-> 0, skips |-> 0]

NoDecision == [id |-> 0, kind |-> "none", files0 |-> <<>>, metas0 |-> <<>>,
               eff0 |-> NoEff, driver0 |-> 0]

StopPcs == {"ready", "done", "aborted", "killed"}

Cand == subs[idx]
CandPath == _get_file_path(ProblemDirOf(Cand), Cand.language)

Began(kind) ==
    [id |-> Cand.id, kind |-> kind, files0 |-> files, metas0 |-> metas,
     eff0 |-> eff, driver0 |-> driver]

\* An exception leaves _fetch_sub and _fetch_from_atcoder: the run is over.
Abort(kind) ==
    /\ pc' = "aborted"
    /\ outcome' = "fault"
    /\ lastDecision' = [lastDecision EXCEPT !.kind = kind]

\* lines 229-233: a run of the program over the worklist
StartRun ==
    /\ pc \in StopPcs
    /\ run < MaxRuns
    /\ run' = run + 1
    /\ pc' = "loop"
    /\ idx' = 1
    /\ driver' = 0
    /\ ldriver' = 0
    /\ sessions' = <<>>
    /\ metadata' = {}
    /\ sub_code' = <<>>
    /\ outcome' = "running"
    /\ prevFetches' = IF outcome = "done" THEN eff.fetches ELSE 0
    /\ eff' = NoEff
    /\ lastDecision' = NoDecision
    /\ afterClean' = (outcome = "done" /\ touchedAt # run)
    /\ retry' = IF lastDecision.kind = "fault_element" /\ touchedAt # run
                THEN lastDecision.id ELSE 0
    /\ UNCHANGED <<idVars, selVars, extVars, subs, dirs, files, metas,
                   touchedAt>>

\* lines 187-191, 177: the language has no file name
FetchSubUnsupported ==
    /\ pc = "loop" /\ idx <= Len(subs)
    /\ CandPath.err
    /\ dirs' = dirs \cup {ProblemDirOf(Cand)}
    /\ pc' = "aborted"
    /\ outcome' = "fault"
    /\ lastDecision' = Began("fault_lang")
    /\ ldriver' = driver
    /\ UNCHANGED <<idVars, selVars, extVars, subs, idx, driver, sessions,
                   files, metas, metadata, sub_code, run, eff, prevFetches,
                   touchedAt, afterClean, retry>>

\* lines 187-198: metadata.json cannot be parsed
FetchSubBadLedger ==
    /\ pc = "loop" /\ idx <= Len(subs)
    /\ ~CandPath.err
    /\ LET meta == metas[ProblemDirOf(Cand)] IN meta.exists /\ ~meta.valid
    /\ dirs' = dirs \cup {ProblemDirOf(Cand)}
    /\ pc' = "aborted"
    /\ outcome' = "fault"
    /\ lastDecision' = Began("fault_ledger")
    /\ ldriver' = driver
    /\ UNCHANGED <<idVars, selVars, extVars, subs, idx, driver, sessions,
                   files, metas, metadata, sub_code, run, eff, prevFetches,
                   touchedAt, afterClean, retry>>

\* The early return of line 206 taken only after the wait of line 224
FetchSubSkipAfterWait ==
    /\ pc = "loop" /\ idx <= Len(subs)
    /\ ~CandPath.err
    /\ LET meta == metas[ProblemDirOf(Cand)] IN meta.exists => meta.valid
    /\ AlreadyFetched(files[<<CandPath.dir, CandPath.name>>],
                      LoadMetadata(metas[ProblemDirOf(Cand)]),
                      CandPath.name, Cand)
    /\ dirs' = dirs \cup {ProblemDirOf(Cand)}
    /\ metadata' = LoadMetadata(metas[ProblemDirOf(Cand)])
    /\ ldriver' = driver
    /\ lastDecision' = Began("skip")
    /\ eff' = [eff EXCEPT !.skips = @ + 1, !.slept = @ + WAIT_SEC]
    /\ idx' = idx + 1
    /\ UNCHANGED <<idVars, selVars, extVars, subs, pc, driver, sessions,
                   files, metas, sub_code, run, outcome, prevFetches,
                   touchedAt, afterClean, retry>>

\* lines 187-206 and 235: the file is there and the ledger names this
\* submission; _fetch_sub returns the driver it was given
FetchSubSkip ==
    /\ pc = "loop" /\ idx <= Len(subs)
    /\ ~CandPath.err
    /\ LET meta == metas[ProblemDirOf(Cand)] IN meta.exists => meta.valid
    /\ AlreadyFetched(files[<<CandPath.dir, CandPath.name>>],
                      LoadMetadata(metas[ProblemDirOf(Cand)]),
                      CandPath.name, Cand)
    /\ dirs' = dirs \cup {ProblemDirOf(Cand)}
    /\ metadata' = LoadMetadata(metas[ProblemDirOf(Cand)])
    /\ ldriver' = driver
    /\ lastDecision' = Began("skip")
    /\ eff' = [eff EXCEPT !.skips = @ + 1]
    /\ idx' = idx + 1
    /\ UNCHANGED <<idVars, selVars, extVars, subs, pc, driver, sessions,
                   files, metas, sub_code, run, outcome, prevFetches,
                   touchedAt, afterClean, retry>>

\* lines 187-209: a fetch is needed
FetchSubNeeded ==
    /\ pc = "loop" /\ idx <= Len(subs)
    /\ ~CandPath.err
    /\ LET meta == metas[ProblemDirOf(Cand)] IN meta.exists => meta.valid
    /\ ~AlreadyFetched(files[<<CandPath.dir, CandPath.name>>],
                       LoadMetadata(metas[ProblemDirOf(Cand)]),
                       CandPath.name, Cand)
    /\ dirs' = dirs \cup {ProblemDirOf(Cand)}
    /\ metadata' = LoadMetadata(metas[ProblemDirOf(Cand)])
    /\ ldriver' = driver
    /\ lastDecision' = Began("fetch")
    /\ eff' = [eff EXCEPT !.fetches = @ + 1]
    /\ pc' = "need_driver"
    /\ UNCHANGED <<idVars, selVars, extVars, subs, idx, driver, sessions,
                   files, metas, sub_code, run, outcome, prevFetches,
                   touchedAt, afterClean, retry>>

\* lines 212-213: driver is None, webdriver.Chrome() opens a session
CreateDriver ==
    /\ pc = "need_driver"
    /\ ldriver = 0
    /\ sessions' = Append(sessions, "open")
    /\ ldriver' = Len(sessions) + 1
    /\ eff' = [eff EXCEPT !.sessions = @ + 1]
    /\ pc' = StepAfter(pc)
    /\ UNCHANGED <<idVars, selVars, extVars, subs, idx, driver, dirs, files,
                   metas, metadata, sub_code, run, outcome, prevFetches,
                   lastDecision, touchedAt, afterClean, retry>>

\* The test of line 212 left out: a session is opened although one was
\* handed in.
CreateDriverAgain ==
    /\ pc = "need_driver"
    /\ ldriver # 0
    /\ sessions' = Append(sessions, "open")
    /\ ldriver' = Len(sessions) + 1
    /\ eff' = [eff EXCEPT !.sessions = @ + 1]
    /\ pc' = "get"
    /\ UNCHANGED <<idVars, selVars, extVars, subs, idx, driver, dirs, files,
                   metas, metadata, sub_code, run, outcome, prevFetches,
                   lastDecision, touchedAt, afterClean, retry>>

\* line 212: the driver passed in is used
ReuseDriver ==
    /\ pc = "need_driver"
    /\ ldriver # 0
    /\ pc' = StepAfter(pc)
    /\ UNCHANGED <<idVars, selVars, extVars, subs, idx, driver, ldriver,
                   sessions, dirs, files, metas, metadata, sub_code, run,
                   outcome, eff, prevFetches, lastDecision, touchedAt,
                   afterClean, retry>>

\* line 150: driver.get(url)
Navigate ==
    /\ pc = "get"
    /\ eff' = [eff EXCEPT !.navs = @ + 1]
    /\ pc' = StepAfter(pc)
    /\ UNCHANGED <<idVars, selVars, extVars, subs, idx, driver, ldriver,
                   sessions, dirs, files, metas, metadata, sub_code, run,
                   outcome, prevFetches, lastDecision, touchedAt, afterClean,
                   retry>>

\* line 150: driver.get(url) raises
NavigateFault ==
    /\ pc = "get"
    /\ Abort("fault_nav")
    /\ UNCHANGED <<idVars, selVars, extVars, subs, idx, driver, ldriver,
                   sessions, dirs, files, metas, metadata, sub_code, run,
                   eff, prevFetches, touchedAt, afterClean, retry>>

\* lines 151-168: the code element is found and its text extracted
\* (CodeOf is the table of ExtractText over the pages)
FindCode ==
    /\ pc = "find"
    /\ sub_code' = CodeOf(Cand.id)
    /\ pc' = StepAfter(pc)
    /\ UNCHANGED <<idVars, selVars, extVars, subs, idx, driver, ldriver,
                   sessions, dirs, files, metas, metadata, run, outcome, eff,
                   prevFetches, lastDecision, touchedAt, afterClean, retry>>

\* line 151: there is no element with id "submission-code"
FindCodeFault ==
    /\ pc = "find"
    /\ Abort("fault_element")
    /\ UNCHANGED <<idVars, selVars, extVars, subs, idx, driver, ldriver,
                   sessions, dirs, files, metas, metadata, sub_code, run,
                   eff, prevFetches, touchedAt, afterClean, retry>>

\* line 217: open(file_path, 'w') creates or empties the file
OpenFile ==
    /\ pc = "open_file"
    /\ files' = [files EXCEPT ![<<CandPath.dir, CandPath.name>>] =
                    [exists |-> TRUE, text |-> <<>>]]
    /\ eff' = [eff EXCEPT !.file_writes = @ + 1]
    /\ pc' = StepAfter(pc)
    /\ UNCHANGED <<idVars, selVars, extVars, subs, idx, driver, ldriver,
                   sessions, dirs, metas, metadata, sub_code, run, outcome,
                   prevFetches, lastDecision, touchedAt, afterClean, retry>>

\* line 218 and the end of the with block: the code is in the file
WriteFile ==
    /\ pc = "write_file"
    /\ files' = [files EXCEPT ![<<CandPath.dir, CandPath.name>>] =
                    [exists |-> TRUE, text |-> sub_code]]
    /\ pc' = StepAfter(pc)
    /\ UNCHANGED <<idVars, selVars, extVars, subs, idx, driver, ldriver,
                   sessions, dirs, metas, metadata, sub_code, run, outcome,
                   eff, prevFetches, lastDecision, touchedAt, afterClean,
                   retry>>

\* line 219: open(metadata_path, 'w') creates or empties metadata.json
OpenMeta ==
    /\ pc = "open_meta"
    /\ metas' = [metas EXCEPT ![ProblemDirOf(Cand)] = TruncatedMeta]
    /\ eff' = [eff EXCEPT !.meta_writes = @ + 1]
    /\ pc' = StepAfter(pc)
    /\ UNCHANGED <<idVars, selVars, extVars, subs, idx, driver, ldriver,
                   sessions, dirs, files, metadata, sub_code, run, outcome,
                   prevFetches, lastDecision, touchedAt, afterClean, retry>>

\* lines 220-221: the entry is put and the whole ledger written
DumpMeta ==
    /\ pc = "dump_meta"
    /\ metadata' = LedgerPut(metadata, CandPath.name, Cand)
    /\ metas' = [metas EXCEPT ![ProblemDirOf(Cand)] =
                    [exists |-> TRUE, valid |-> TRUE, obj |-> metadata']]
    /\ pc' = StepAfter(pc)
    /\ UNCHANGED <<idVars, selVars, extVars, subs, idx, driver, ldriver,
                   sessions, dirs, files, sub_code, run, outcome, eff,
                   prevFetches, lastDecision, touchedAt, afterClean, retry>>

\* The wait of line 224 left out
ReturnWithoutSleep ==
    /\ pc = "sleep"
    /\ driver' = ldriver
    /\ lastDecision' = [lastDecision EXCEPT !.kind = "fetched"]
    /\ idx' = idx + 1
    /\ pc' = "loop"
    /\ UNCHANGED <<idVars, selVars, extVars, subs, ldriver, sessions, dirs,
                   files, metas, metadata, sub_code, run, outcome, eff,
                   prevFetches, touchedAt, afterClean, retry>>

\* lines 224-226 and 235: the wait, then the driver goes back to the loop
SleepReturn ==
    /\ pc = "sleep"
    /\ eff' = [eff EXCEPT !.slept = @ + WAIT_SEC]
    /\ driver' = ldriver
    /\ lastDecision' = [lastDecision EXCEPT !.kind = "fetched"]
    /\ idx' = idx + 1
    /\ pc' = "loop"
    /\ UNCHANGED <<idVars, selVars, extVars, subs, ldriver, sessions, dirs,
                   files, metas, metadata, sub_code, run, outcome,
                   prevFetches, touchedAt, afterClean, retry>>

\* lines 236-237: the loop is over, the session (if any) is closed
LoopEnd ==
    /\ pc = "loop" /\ idx > Len(subs)
    /\ sessions' = IF driver # 0
                   THEN [sessions EXCEPT ![driver] = "closed"]
                   ELSE sessions
    /\ pc' = "done"
    /\ outcome' = "done"
    /\ UNCHANGED <<idVars, selVars, extVars, subs, idx, driver, ldriver,
                   dirs, files, metas, metadata, sub_code, run, eff,
                   prevFetches, lastDecision, touchedAt, afterClean, retry>>

\* The process is interrupted between two steps.
Kill ==
    /\ pc \notin StopPcs
    /\ pc' = "killed"
    /\ outcome' = "killed"
    /\ UNCHANGED <<idVars, selVars, extVars, subs, idx, driver, ldriver,
                   sessions, dirs, files, metas, metadata, sub_code, run,
                   eff, prevFetches, lastDecision, touchedAt, afterClean,
                   retry>>

\* Between two runs the user removes the source file of a candidate (once).
DeleteFile ==
    /\ pc \in StopPcs
    /\ run < MaxRuns
    /\ touchedAt < 0
    /\ \E k \in 1..Len(subs), name \in FileNames :
          LET path == <<ProblemDirOf(subs[k]), name>> IN
          /\ files[path].exists
          /\ files' = [files EXCEPT ![path] = NoFile]
    /\ touchedAt' = run
    /\ UNCHANGED <<idVars, selVars, extVars, subs, idx, pc, driver, ldriver,
                   sessions, dirs, metas, metadata, sub_code, run, outcome,
                   eff, prevFetches, lastDecision, afterClean, retry>>

\* The local tree after each submission of P was fetched by an earlier
\* complete run.
DirsAfter(P) == {ProblemDirOf(s) : s \in P}

FilesAfter(P) ==
    [path \in FilePaths |->
        IF \E s \in P : /\ ProblemDirOf(s) = path[1]
                        /\ _get_file_path(path[1], s.language).name = path[2]
        THEN [exists |-> TRUE,
              text |-> CodeOf((CHOOSE s \in P :
                         /\ ProblemDirOf(s) = path[1]
                         /\ _get_file_path(path[1], s.language).name = path[2]).id)]
        ELSE NoFile]

MetasAfter(P) ==
    [d \in ProblemDirs |->
        IF \E s \in P : ProblemDirOf(s) = d
        THEN [exists |-> TRUE, valid |-> TRUE,
              obj |-> {[name |-> _get_file_path(d, s.language).name, sub |-> s] :
                          s \in {t \in P : ProblemDirOf(t) = d}}]
        ELSE NoMeta]

\* Nothing fetched yet, or an earlier run fetched what was then the latest
\* accepted submission of one problem
Priors == {{}, {SubById(1)}, {SubById(4)}}

(***************************************************************************)
(* Specifications                                                          *)
(***************************************************************************)
IdleId ==
    /\ problem_id = <<>>
    /\ postfix = NotCalled
    /\ contest_prefix = NotCalledSeq

IdleSel ==
    /\ results = <<>>
    /\ results_json = <<>>
    /\ ac_subs = <<>>
    /\ latest_ac_subs_dic = <<>>
    /\ selPc = "idle"
    /\ selOut = <<>>

IdleExt ==
    /\ source = <<>>
    /\ inner_html = <<>>
    /\ text = <<>>
    /\ extPc = "idle"

IdleSync ==
    /\ subs = <<>>
    /\ idx = 0
    /\ pc = "off"
    /\ driver = 0
    /\ ldriver = 0
    /\ sessions = <<>>
    /\ dirs = {}
    /\ files = <<>>
    /\ metas = <<>>
    /\ metadata = {}
    /\ sub_code = <<>>
    /\ run = 0
    /\ outcome = "none"
    /\ eff = NoEff
    /\ prevFetches = 0
    /\ lastDecision = NoDecision
    /\ touchedAt = -1
    /\ afterClean = FALSE
    /\ retry = 0

\* Problem id derivation over all bounded problem ids
IdInit ==
    /\ problem_id \in ProblemIdInputs
    /\ postfix = NotCalled
    /\ contest_prefix = NotCalledSeq
    /\ IdleSel /\ IdleExt /\ IdleSync

IdNext == CallPostfix \/ CallContestId

IdSpec == IdInit /\ [][IdNext]_vars

\* The selector over all bounded histories
SelInit ==
    /\ results \in {WithIds(h) : h \in Histories}
    /\ results_json = <<>>
    /\ ac_subs = <<>>
    /\ latest_ac_subs_dic = <<>>
    /\ selPc = "start"
    /\ selOut = <<>>
    /\ IdleId /\ IdleExt /\ IdleSync

SelNext == SelFilterSort \/ SelFold \/ SelReturn

SelSpec == SelInit /\ [][SelNext]_vars

\* The extraction over all bounded sources and markup styles
ExtInit ==
    /\ source \in Sources
    /\ inner_html = <<>>
    /\ text = <<>>
    /\ extPc = "source"
    /\ IdleId /\ IdleSel /\ IdleSync

ExtNext == Render \/ Extract

ExtSpec == ExtInit /\ [][ExtNext]_vars

\* The synchronisation: runs over one worklist, from an empty tree or the
\* tree an earlier run left
Init ==
    /\ subs \in Worklists
    /\ \E P \in Priors :
          /\ dirs = DirsAfter(P)
          /\ files = FilesAfter(P)
          /\ metas = MetasAfter(P)
    /\ idx = 0
    /\ pc = "ready"
    /\ driver = 0
    /\ ldriver = 0
    /\ sessions = <<>>
    /\ metadata = {}
    /\ sub_code = <<>>
    /\ run = 0
    /\ outcome = "none"
    /\ eff = NoEff
    /\ prevFetches = 0
    /\ lastDecision = NoDecision
    /\ touchedAt = -1
    /\ afterClean = FALSE
    /\ retry = 0
    /\ IdleId /\ IdleSel /\ IdleExt

Next ==
    \/ StartRun
    \/ FetchSubUnsupported
    \/ FetchSubBadLedger
    \/ FetchSubSkip
    \/ FetchSubNeeded
    \/ CreateDriver
    \/ ReuseDriver
    \/ Navigate
    \/ NavigateFault
    \/ FindCode
    \/ FindCodeFault
    \/ OpenFile
    \/ WriteFile
    \/ OpenMeta
    \/ DumpMeta
    \/ SleepReturn
    \/ LoopEnd
    \/ Kill
    \/ DeleteFile

Spec == Init /\ [][Next]_vars

\* The steps the program takes by itself: a running process is not stopped
\* for ever between two statements.  Faults of the browser, interruptions
\* and the start of a run are up to the environment.
ProgramStep ==
    \/ FetchSubUnsupported \/ FetchSubBadLedger
    \/ FetchSubSkip \/ FetchSubNeeded
    \/ CreateDriver \/ ReuseDriver
    \/ Navigate \/ FindCode
    \/ OpenFile \/ WriteFile \/ OpenMeta \/ DumpMeta
    \/ SleepReturn \/ LoopEnd

FairSpec == Init /\ [][Next]_vars /\ WF_vars(ProgramStep)

(***************************************************************************)
(* Properties                                                              *)
(***************************************************************************)

\* ---- the selector ----

\* C1: the output of the selector holds at most one record per problem_id,
\* and the epoch_second of that record is the greatest among the AC records
\* of the input with that problem_id.
LatestAcPerProblem ==
    selPc = "done" =>
        /\ \A i, j \in 1..Len(selOut) :
              selOut[i].problem_id = selOut[j].problem_id => i = j
        /\ \A i \in 1..Len(selOut) :
              LET acs == {k \in 1..Len(results) :
                            /\ results[k].result = "AC"
                            /\ results[k].problem_id = selOut[i].problem_id}
              IN /\ \A k \in acs :
                       results[k].epoch_second <= selOut[i].epoch_second
                 /\ \E k \in acs :
                       results[k].epoch_second = selOut[i].epoch_second

\* A problem whose later AC record arrives before its earlier one, and a
\* second problem, have gone through the selector.
LatestAcPerProblemWitness ==
    /\ selPc = "done"
    /\ Len(selOut) = 2
    /\ \E i, j \in 1..Len(results) :
          /\ i < j
          /\ results[i].problem_id = results[j].problem_id
          /\ results[i].result = "AC" /\ results[j].result = "AC"
          /\ results[i].epoch_second > results[j].epoch_second

\* The positions of the AC records of problem p with the greatest
\* epoch_second among the AC records of p
LatestAcPositions(p) ==
    {k \in 1..Len(results) :
        /\ results[k].result = "AC"
        /\ results[k].problem_id = p
        /\ \A j \in 1..Len(results) :
              (results[j].result = "AC" /\ results[j].problem_id = p)
                 => results[j].epoch_second <= results[k].epoch_second}

\* C16: every record the selector returns is, among the AC records of its
\* problem_id with the greatest epoch_second, the one that comes last in
\* the input history.
TieGoesToLastInHistory ==
    selPc = "done" =>
        \A i \in 1..Len(selOut) :
            LET ks == LatestAcPositions(selOut[i].problem_id) IN
            /\ ks # {}
            /\ selOut[i] = results[CHOOSE k \in ks : \A j \in ks : j <= k]

\* Two AC records of one problem with the same, greatest, epoch_second have
\* gone through the selector, after an older AC record of that problem.
TieGoesToLastInHistoryWitness ==
    /\ selPc = "done"
    /\ Len(results) = 3
    /\ \A k \in 1..3 : results[k].problem_id = "abc_a" /\ results[k].result = "AC"
    /\ results[1].epoch_second = 200
    /\ results[2].epoch_second = 100
    /\ results[3].epoch_second = 200
    /\ selOut = <<results[3]>>


\* C20: the selector returns exactly one record for every problem_id that
\* has an AC record in the input and none for any other problem_id, and
\* every record it returns is a record of the input with result "AC".
WorklistCompleteAndSound ==
    selPc = "done" =>
        /\ \A k \in 1..Len(results) :
              results[k].result = "AC" =>
                 Cardinality({i \in 1..Len(selOut) :
                    selOut[i].problem_id = results[k].problem_id}) = 1
        /\ \A i \in 1..Len(selOut) :
              /\ selOut[i].result = "AC"
              /\ \E k \in 1..Len(results) : results[k] = selOut[i]

\* A problem with an AC record followed by a later record that is not AC,
\* and a problem with no AC record, have gone through the selector.
WorklistCompleteAndSoundWitness ==
    /\ selPc = "done"
    /\ Len(results) = 3
    /\ results[1].problem_id = "abc_a" /\ results[1].result = "AC"
    /\ results[1].epoch_second = 100
    /\ results[2].problem_id = "abc_a" /\ results[2].result = "WA"
    /\ results[2].epoch_second = 200
    /\ results[3].problem_id = "abc_b" /\ results[3].result = "WA"
    /\ selOut = <<results[1]>>


\* ---- the synchronisation ----

\* The ledger of the directory of path names submission id under the file
\* name of path.
LedgerNames(path, id) ==
    LET meta == metas[path[1]] IN
    /\ meta.exists /\ meta.valid
    /\ \E e \in meta.obj : e.name = path[2] /\ e.sub.id = id

\* The file name the language label of a supported candidate stands for
TargetName(lang) ==
    IF Contains(lang, StrPython) \/ Contains(lang, StrPyPy)
    THEN "Main.py" ELSE "Main.go"

Unsupported(lang) ==
    /\ ~Contains(lang, StrPython)
    /\ ~Contains(lang, StrPyPy)
    /\ ~Contains(lang, StrGo)

TargetPath(sub) == <<ProblemDirOf(sub), TargetName(sub.language)>>

\* The target file is on disk and the ledger names the candidate under it.
Synchronised(sub) ==
    /\ files[TargetPath(sub)].exists
    /\ LedgerNames(TargetPath(sub), sub.id)

\* C2: in a run that follows a run that ended normally, with the tree
\* untouched in between, every decision is skip: no fetch, session,
\* navigation or write happens.
SecondRunFetchesNothing ==
    afterClean =>
        /\ eff.fetches = 0 /\ eff.sessions = 0 /\ eff.navs = 0
        /\ eff.file_writes = 0 /\ eff.meta_writes = 0 /\ eff.slept = 0
        /\ sessions = <<>>
        /\ lastDecision.kind \in {"none", "skip"}

\* A second run over two candidates has ended after the first run fetched
\* both.
SecondRunFetchesNothingWitness ==
    /\ afterClean /\ pc = "done"
    /\ Len(subs) = 2
    /\ prevFetches = 2
    /\ eff.skips = 2

\* C3: when a run has ended, normally or by a fault, every session created
\* in it is closed.
SessionClosedOnExit ==
    pc \in {"done", "aborted"} =>
        \A i \in 1..Len(sessions) : sessions[i] = "closed"

\* C4: in every state in which a run has stopped, the ledger names
\* submission i under a file name exactly if that file exists and holds
\* the code of submission i.
FileAndLedgerTogether ==
    (pc \in {"done", "aborted", "killed"} /\ touchedAt < 0) =>
        \A path \in FilePaths, s \in AllSubs :
            LedgerNames(path, s.id) <=>
                (files[path].exists /\ files[path].text = CodeOf(s.id))

\* C5: after a call of _fetch_sub that fetched and returned, the ledger of
\* the candidate's directory names the candidate's id under the target file
\* name and the target file holds the code of the candidate.
FetchedLedgerConsistent ==
    (lastDecision.kind = "fetched" /\ touchedAt # run) =>
        LET sub == SubById(lastDecision.id) IN
        /\ LedgerNames(TargetPath(sub), sub.id)
        /\ files[TargetPath(sub)] =
              [exists |-> TRUE, text |-> CodeOf(sub.id)]

\* A fetch has just returned that replaced the file and entry of another
\* submission.
FetchedLedgerConsistentWitness ==
    /\ lastDecision.kind = "fetched" /\ pc = "loop"
    /\ LET sub == SubById(lastDecision.id) IN
       /\ lastDecision.files0[TargetPath(sub)].exists
       /\ \E e \in lastDecision.metas0[ProblemDirOf(sub)].obj :
             e.name = TargetName(sub.language) /\ e.sub.id # sub.id

\* The call of _fetch_sub for the current candidate has just decided.
JustDecided ==
    \/ pc = "loop" /\ lastDecision.kind = "skip"
    \/ pc = "need_driver"
    \/ pc = "aborted" /\ lastDecision.kind = "fault_ledger" /\ touchedAt # run

\* C6: for a candidate with a supported language the decision is skip
\* exactly if the target file exists and the ledger names the candidate's id
\* under the target file name; otherwise, with no ledger or a readable one,
\* it is fetch.
SkipIffSynchronised ==
    JustDecided =>
        LET sub == SubById(lastDecision.id)
            meta == metas[ProblemDirOf(sub)]
        IN /\ lastDecision.kind = "skip" <=> Synchronised(sub)
           /\ (~Synchronised(sub) /\ (meta.exists => meta.valid))
                 => (lastDecision.kind = "fetch" /\ pc = "need_driver")

\* The decision is fetch for a candidate the ledger names but whose file is
\* missing.
SkipIffSynchronisedWitness ==
    /\ pc = "need_driver"
    /\ LedgerNames(TargetPath(Cand), Cand.id)
    /\ ~files[TargetPath(Cand)].exists

\* C7: when the code element is missing the run ends in an error with every
\* file and ledger as the call found them, the candidate is not
\* synchronised, and the next run decides fetch for it.
ExtractionFailureWritesNothing ==
    /\ (lastDecision.kind = "fault_element" /\ touchedAt # run) =>
          /\ pc = "aborted" /\ outcome = "fault"
          /\ files = lastDecision.files0
          /\ metas = lastDecision.metas0
          /\ ~Synchronised(SubById(lastDecision.id))
    /\ (retry # 0 /\ lastDecision.id = retry) =>
          lastDecision.kind \notin {"skip", "fault_lang", "fault_ledger"}

\* The run after an extraction failure has decided to fetch the candidate
\* again, for a candidate whose file and entry held another submission.
ExtractionFailureWritesNothingWitness ==
    /\ retry # 0 /\ lastDecision.id = retry
    /\ lastDecision.kind = "fetch"
    /\ files[TargetPath(SubById(retry))].exists

\* C8: a candidate whose label contains none of "Python", "PyPy", "Go" ends
\* _fetch_sub in an error with no navigation, no new session and no write;
\* every other candidate is decided, and what is fetched goes to Main.py
\* for "Python"/"PyPy" and to Main.go for any other label with "Go".
UnsupportedFailsFast ==
    /\ lastDecision.kind # "none" =>
          (Unsupported(SubById(lastDecision.id).language)
              <=> lastDecision.kind = "fault_lang")
    /\ (lastDecision.kind = "fault_lang" /\ touchedAt # run) =>
          /\ pc = "aborted" /\ outcome = "fault"
          /\ eff = lastDecision.eff0
          /\ Len(sessions) = lastDecision.eff0.sessions
          /\ files = lastDecision.files0
          /\ metas = lastDecision.metas0
    /\ (lastDecision.kind = "fetched" /\ touchedAt # run) =>
          files[TargetPath(SubById(lastDecision.id))].exists

\* A run that had fetched a candidate has failed on an unsupported one.
UnsupportedFailsFastWitness ==
    /\ lastDecision.kind = "fault_lang"
    /\ eff.fetches = 1 /\ driver # 0
    /\ lastDecision.driver0 = driver

\* ---- resuming, sessions, pacing and frames of the synchronisation ----

\* The current run follows a run that ended in a fault or was interrupted,
\* and nothing was removed from the tree in between.
AfterAbortedRun ==
    /\ run >= 2
    /\ ~afterClean
    /\ touchedAt # run - 1

\* C11: a run that follows an aborted run, over the same worklist and the
\* tree the aborted run left, is never stopped by what the aborted run left:
\* the ledger of every candidate can be read and the candidate is decided.
ResumeReadsLedger ==
    AfterAbortedRun => lastDecision.kind # "fault_ledger"


FetchPcs ==
    {"get", "find", "open_file", "write_file", "open_meta", "dump_meta",
     "sleep"}

\* C13: in every run at most one session is created; there is none before
\* the first candidate that needs a fetch is reached, so none in a run that
\* only skips; the first fetch creates it and every later fetch of the run
\* works on that same session.
LazySingleSession ==
    /\ Len(sessions) <= 1
    /\ eff.sessions = Len(sessions)
    /\ eff.fetches = 0 => (sessions = <<>> /\ driver = 0 /\ ldriver = 0)
    /\ (pc = "need_driver" /\ eff.fetches = 1) => sessions = <<>>
    /\ (pc = "need_driver" /\ eff.fetches >= 2) =>
          (Len(sessions) = 1 /\ ldriver = 1)
    /\ pc \in FetchPcs => (ldriver = 1 /\ sessions = <<"open">>)
    /\ driver # 0 => driver = 1

\* The second fetch of a run has navigated on the session the first fetch
\* created.
LazySingleSessionWitness ==
    /\ pc = "find"
    /\ eff.fetches = 2 /\ eff.navs = 2
    /\ eff.sessions = 1 /\ ldriver = 1 /\ driver = 1


\* C14: when _fetch_sub has returned by the skip decision, no session was
\* created, no page visited, no file or ledger written and no wait made
\* since the call began, and the caller holds the session handle it passed.
SkipHasNoEffects ==
    (pc = "loop" /\ lastDecision.kind = "skip") =>
        /\ eff = [lastDecision.eff0 EXCEPT !.skips = @ + 1]
        /\ Len(sessions) = lastDecision.eff0.sessions
        /\ files = lastDecision.files0
        /\ metas = lastDecision.metas0
        /\ driver = lastDecision.driver0
        /\ ldriver = lastDecision.driver0

\* A candidate has been skipped in a run that had fetched another one
\* before and holds an open session.
SkipHasNoEffectsWitness ==
    /\ pc = "loop" /\ lastDecision.kind = "skip"
    /\ eff.fetches = 1 /\ eff.slept = WAIT_SEC
    /\ driver = 1 /\ sessions = <<"open">>


\* C15: when a fetch has completed and the loop is back at the next
\* candidate, the run has waited WAIT_SEC once more than when the fetch
\* began; every navigation belongs to one fetch decision, and before the
\* n-th navigation of a run n - 1 waits have been made.
PacedNavigations ==
    /\ (pc = "loop" /\ lastDecision.kind = "fetched") =>
          eff.slept = lastDecision.eff0.slept + WAIT_SEC
    /\ pc = "loop" => eff.slept = WAIT_SEC * eff.fetches
    /\ eff.navs <= eff.fetches
    /\ eff.navs >= 1 => eff.slept >= WAIT_SEC * (eff.navs - 1)
    /\ pc = "get" => eff.slept = WAIT_SEC * eff.navs

\* The second navigation of a run has been made, one wait after the first.
PacedNavigationsWitness ==
    /\ pc = "find"
    /\ eff.navs = 2
    /\ eff.slept = WAIT_SEC


\* C17: when a fetch has completed, the ledger of the candidate's directory
\* holds the candidate under the target file name and, under every other
\* file name, the entry it held when the call began; the ledgers of the
\* other directories and every file but the target file are as they were.
LedgerFrame ==
    (pc = "loop" /\ lastDecision.kind = "fetched") =>
        LET sub == SubById(lastDecision.id)
            d == ProblemDirOf(sub)
            name == TargetName(sub.language)
            old == LoadMetadata(lastDecision.metas0[d])
        IN /\ metas[d].exists /\ metas[d].valid
           /\ {e \in metas[d].obj : e.name = name}
                 = {[name |-> name, sub |-> sub]}
           /\ {e \in metas[d].obj : e.name # name}
                 = {e \in old : e.name # name}
           /\ \A d2 \in ProblemDirs \ {d} :
                 metas[d2] = lastDecision.metas0[d2]
           /\ \A path \in FilePaths \ {<<d, name>>} :
                 files[path] = lastDecision.files0[path]

\* A fetch has completed in a directory whose ledger held an entry under
\* another file name, while another directory has a file and a ledger.
LedgerFrameWitness ==
    /\ pc = "loop" /\ lastDecision.kind = "fetched"
    /\ LET sub == SubById(lastDecision.id)
           d == ProblemDirOf(sub)
       IN /\ \E e \in lastDecision.metas0[d].obj :
                e.name # TargetName(sub.language)
          /\ Cardinality(metas[d].obj) = 2
          /\ \E d2 \in ProblemDirs \ {d} :
                /\ metas[d2].exists
                /\ \E n \in FileNames : files[<<d2, n>>].exists


\* A run has ended normally and the tree was not touched since.
EndedNormally == pc = "done" /\ touchedAt # run

\* C19: a run ends; if no fault and no interruption ends it, it ends
\* normally, and then one skip-or-fetch decision was made per candidate and
\* every candidate is synchronised: its target file exists and the ledger
\* names its id under that file name.
FaultFreeRunEndsSynchronised ==
    /\ [](EndedNormally =>
            /\ idx = Len(subs) + 1
            /\ eff.skips + eff.fetches = Len(subs)
            /\ \A k \in 1..Len(subs) : Synchronised(subs[k]))
    /\ [](pc = "loop" => eff.skips + eff.fetches = idx - 1)
    /\ (outcome = "running" ~> outcome \in {"done", "fault", "killed"})

\* A run over two candidates has ended normally after one skip and one
\* fetch.
FaultFreeRunEndsSynchronisedWitness ==
    /\ EndedNormally
    /\ Len(subs) = 2
    /\ eff.skips = 1 /\ eff.fetches = 1
    /\ \A k \in 1..Len(subs) : Synchronised(subs[k])


\* ---- the problem id ----

Letters ==
    {"a", "b", "c", "d", "e", "f", "g", "h", "i", "j", "k", "l", "m", "n",
     "o", "p", "q", "r", "s", "t", "u", "v", "w", "x", "y", "z",
     "A", "B", "C", "D", "E", "F", "G", "H", "I", "J", "K", "L", "M", "N",
     "O", "P", "Q", "R", "S", "T", "U", "V", "W", "X", "Y", "Z"}

\* The token after the last underscore of s is a single letter or digit.
SingleCharToken(s) ==
    /\ Len(s) >= 2
    /\ s[Len(s) - 1] = "_"
    /\ s[Len(s)] \in Letters \cup Digits

\* What the two accessors are to return for s
ExpectedPostfix(s) ==
    LET c == s[Len(s)] IN
    IF c \in Digits THEN Chr(DigitVal(c) + OrdA - 1) ELSE c

ExpectedPrefix(s) == SubSeq(s, 1, Len(s) - 2)

DerivationAsExpected ==
    /\ postfix.called =>
          (~postfix.err /\ postfix.val = ExpectedPostfix(problem_id))
    /\ contest_prefix.called =>
          (~contest_prefix.err
              /\ contest_prefix.val = ExpectedPrefix(problem_id))

HasUnderscore(s) == \E i \in 1..Len(s) : s[i] = "_"

LastUnderscore(s) ==
    CHOOSE i \in 1..Len(s) :
        /\ s[i] = "_"
        /\ \A j \in (i + 1)..Len(s) : s[j] # "_"

\* The token after the last underscore of s, and the part before it
TrailingToken(s) == SubSeq(s, LastUnderscore(s) + 1, Len(s))
PartBeforeToken(s) == SubSeq(s, 1, LastUnderscore(s) - 1)

\* C12: both accessors fail on a problem_id without an underscore; on every
\* problem_id with an underscore they succeed, the contest id is the part
\* before the last underscore and the postfix is the token after it (or the
\* letter its digit stands for).
UnderscoreDecidesFailure ==
    /\ postfix.called =>
          /\ postfix.err <=> ~HasUnderscore(problem_id)
          /\ ~postfix.err =>
                \/ <<postfix.val>> = TrailingToken(problem_id)
                \/ /\ Len(TrailingToken(problem_id)) = 1
                   /\ postfix.val = ExpectedPostfix(problem_id)
    /\ contest_prefix.called =>
          /\ contest_prefix.err <=> ~HasUnderscore(problem_id)
          /\ ~contest_prefix.err =>
                contest_prefix.val = PartBeforeToken(problem_id)


\* ---- the extraction ----

\* C10: for every plain-text source, the text extracted from the markup
\* built from it (one <li> per line, text escaped, spans and &nbsp;
\* placeholders added) is the source, every line ended by a line break.
ExtractRoundTrip ==
    extPc = "extracted" => text = PlainText(source)

\* A source with a blank line and an indented line has been extracted from
\* markup with spans and placeholders.
ExtractRoundTripWitness ==
    /\ extPc = "extracted"
    /\ source = <<<<"a">>, <<>>, <<" ", " ", "a", "&", "&">>>>
    /\ inner_html = Markup(source, "split")
    /\ text = PlainText(source)

\* Where the <li> elements of the markup open and close
LiOpenPositions(h) == {i \in 1..Len(h) : StartsWith(h, i, LiStart)}
LiClosePositions(h) == {i \in 1..Len(h) : StartsWith(h, i, LiClose)}

\* The k-th smallest member of a set of numbers
NthOf(S, k) == CHOOSE x \in S : Cardinality({y \in S : y < x}) = k - 1

\* The k-th <li> element of the markup, in document order
LiElement(h, k) ==
    SubSeq(h, NthOf(LiOpenPositions(h), k),
              NthOf(LiClosePositions(h), k) + Len(LiClose) - 1)

LineBreaks(t) == {i \in 1..Len(t) : t[i] = NL}

\* The k-th line of a text, with the line break that ends it
TextLine(t, k) ==
    SubSeq(t, IF k = 1 THEN 1 ELSE NthOf(LineBreaks(t), k - 1) + 1,
              NthOf(LineBreaks(t), k))

\* C18: the extracted text has as many lines as the markup has <li>
\* elements, each ended by a line break, and its k-th line is the line made
\* of the k-th <li> element in document order.
OneLinePerLi ==
    extPc = "extracted" =>
        LET n == Cardinality(LiClosePositions(inner_html)) IN
        /\ Cardinality(LiOpenPositions(inner_html)) = n
        /\ n = Len(source)
        /\ Cardinality(LineBreaks(text)) = n
        /\ text # <<>> => text[Len(text)] = NL
        /\ \A k \in 1..n :
              TextLine(text, k) = ExtractLine(LiElement(inner_html, k))

\* Four <li> elements, the last two empty, have been extracted to four
\* lines, the first two different.
OneLinePerLiWitness ==
    /\ extPc = "extracted"
    /\ Cardinality(LiClosePositions(inner_html)) = 4
    /\ text = <<" ", "a", " ", NL, "\t", "a", NL, NL, NL>>

====
